---- MODULE Spec2Model ----
(***************************************************************************)
(* VelvetBot: the stream pollers of cogs/streaming.py, the moderation      *)
(* handlers of cogs/moderation.py and the XP methods of database.py.       *)
(*                                                                         *)
(* The specifications share the variables:                                 *)
(*   StreamSpec  the two polling loops and their notifications,            *)
(*   LifeSpec    the loops, the announce command and extension reloads,    *)
(*   ModSpec     the moderation command handlers,                          *)
(*   MuteSpec    Moderation.mute over every duration argument,             *)
(*   XpSpec      the Database methods and the message listener.            *)
(***************************************************************************)
EXTENDS Integers, Sequences, FiniteSets, TLC

VARIABLES
    \* ---- bot.py / config.py
    db_ready,           \* VelvetBot.db is set and Database.init() has completed
    bot_ready,          \* wait_until_ready() has been released
    TWITCH_CHANNELS,    \* Config.TWITCH_CHANNELS, a list of channel names
    YOUTUBE_CHANNELS,   \* Config.YOUTUBE_CHANNELS, a list of channel ids
    twitch_creds,       \* which of Config.TWITCH_CLIENT_ID (id), TWITCH_CLIENT_SECRET (secret) are set
    youtube_key,        \* Config.YOUTUBE_API_KEY is set
    \* ---- Streaming cog
    live_streams,       \* self.live_streams: session key -> user_login of the stored object
    twitch_token,       \* self.twitch_token
    twitch_token_expires, \* self.twitch_token_expires
    tw,                 \* check_twitch_streams: [pc, idx, pend, ticks, last]
    yt,                 \* check_youtube_streams: [pc, idx, pend, ticks, last]
    announce,           \* announce_stream: [pc, calls, delivered]
    reloads,            \* how often the streaming extension was reloaded
    sent,               \* messages delivered to the destination channel, per session key
    stream_alerts,      \* number of StreamAlert rows
    obs,                \* per Twitch channel: the current run of live reports (history)
    ytobs,              \* per YouTube video id: what the polls of it did (history)
    \* ---- Moderation cog
    warn_logs,          \* WarnLog rows: (user, guild) -> number of rows
    mod,                \* the moderation command being handled and the calls its handler made
    \* ---- Database (users table)
    users,              \* User rows: set of [user_id, guild_id, xp, level, messages]
    xp,                 \* the Database call being made and what it returns
    custom_commands,    \* CustomCommand rows: set of [guild_id, name, uses]
    msg                 \* the message the on_message listeners last handled

lifeVars == <<announce, reloads>>
streamVars == <<db_ready, bot_ready, TWITCH_CHANNELS, YOUTUBE_CHANNELS, twitch_creds,
                youtube_key, live_streams, twitch_token, twitch_token_expires, tw, yt,
                sent, stream_alerts, obs, ytobs, lifeVars>>
modVars == <<warn_logs, mod>>
xpVars == <<users, xp, custom_commands, msg>>
vars == <<streamVars, modVars, xpVars>>

None == "None"

(***************************************************************************)
(* Bounds                                                                  *)
(***************************************************************************)
MaxTicks == 4       \* timer firings of the two loops, announce commands and reloads
MaxRun == 2         \* the length of a run of live reports is counted up to this
MaxRank == 2        \* role positions 0..MaxRank
MaxLen == 3         \* length of a duration token
MaxWarns == 2       \* WarnLog rows per (user, guild)
MaxHistory == 2     \* messages in the channel that purge reads

(***************************************************************************)
(* Inputs                                                                  *)
(***************************************************************************)
\* Channel names as configured; the streams endpoint reports the login in lower case.
TwitchNames == {"velvet", "Sage"}
TwitchConfigs == {<< >>, <<"velvet">>, <<"Sage">>, <<"velvet", "Sage">>}
YoutubeIds == {"UCabc"}
YoutubeConfigs == {<< >>, <<"UCabc">>}
\* The ids of the streams a channel broadcasts: a stream id belongs to one channel.
StreamIdsOf(channel) == IF channel = "velvet" THEN {"s1", "s2"} ELSE {"s3"}
StreamIds == UNION {StreamIdsOf(c) : c \in TwitchNames}
VideoIds == {"v1", "v2"}

\* The "user_login" field of the stream object returned for ?user_login=<channel>.
UserLogin(channel) == IF channel = "Sage" THEN "sage" ELSE channel

\* Mutant: the key is the bare video id.
YtKeyBare(video_id) == video_id

\* f"yt_{video_id}"
YtKey(video_id) == "yt_" \o video_id

Keys == StreamIds \cup {YtKey(v) : v \in VideoIds}

\* An HTTP response of a status endpoint: status and the first item's id (None: empty list).
TwitchResponses == [status : {200}, id : StreamIds \cup {None}] \cup {[status |-> 500, id |-> None]}
YoutubeResponses == [status : {200}, id : VideoIds \cup {None}] \cup {[status |-> 500, id |-> None]}

(***************************************************************************)
(* Streaming cog: helpers                                                  *)
(***************************************************************************)
\* The timer firings, announce commands and reloads so far.
Events == tw.ticks + yt.ticks + announce.calls + reloads

NoPend == [key |-> None, channel |-> None]
\* last: the status of the response the tick body handled last (0: none yet)
LoopOff == [pc |-> "off", idx |-> 0, pend |-> NoPend, ticks |-> 0, last |-> 0]

\* Mutant: any tracked session counts as this one.
IsTrackedAny(ls, key) == DOMAIN ls # {}

\* if stream_id not in self.live_streams
IsTracked(ls, key) == key \in DOMAIN ls

\* Mutant: the session is not recorded.
TrackNothing(ls, key, login) == ls

\* self.live_streams[key] = stream_object (login: its "user_login", None when it has none)
Track(ls, key, login) ==
    [k \in DOMAIN ls \cup {key} |-> IF k = key THEN login ELSE ls[k]]

\* Mutant: the cleanup also drops the entries that carry no "user_login".
UntrackNoLogin(ls, channel) ==
    [k \in {j \in DOMAIN ls : ls[j] # channel /\ ls[j] # None} |-> ls[k]]

\* Mutant: the cleanup empties the dictionary.
UntrackAll(ls, channel) == << >>

\* {k: v for k, v in self.live_streams.items() if v.get("user_login") != channel}
Untrack(ls, channel) ==
    [k \in {j \in DOMAIN ls : ls[j] # channel} |-> ls[k]]

\* The outcomes of await notification_channel.send(...) in a tick body: the message is
\* delivered; the call raises an exception the loop does not handle (discord.HTTPException);
\* or it raises one of those the loop handles when reconnect is on, the default
\* (OSError, aiohttp.ClientError, asyncio.TimeoutError).
SendOutcomes == {"delivered", "error", "connection"}

\* An exception leaves the tick body: the loop task ends, or, for a handled exception,
\* the loop backs off and runs the body again from its start.
Raised(p, out) ==
    IF out = "connection"
    THEN [p EXCEPT !.pc = "idle", !.idx = 0, !.pend = NoPend]
    ELSE [p EXCEPT !.pc = "dead", !.pend = NoPend]

\* get_twitch_token: the cached token is returned while it has not expired
TokenCached(now) ==
    /\ twitch_token # None
    /\ twitch_token_expires # None
    /\ now < twitch_token_expires

\* Mutant: the tick body returns after the first channel it handled.
AdvanceStop(p, channels) == [p EXCEPT !.pc = "idle", !.idx = 0, !.pend = NoPend]

\* The loop of the channel list: the next channel's request, or the tick body returns.
Advance(p, channels) ==
    IF p.idx < Len(channels)
    THEN [p EXCEPT !.pc = "get", !.idx = @ + 1, !.pend = NoPend]
    ELSE [p EXCEPT !.pc = "idle", !.idx = 0, !.pend = NoPend]

\* History of one Twitch channel: the run of consecutive ticks reporting it live with sid;
\* nth: 0 while this Streaming instance saw no live report of the channel, 1 for the run
\* of its first live report, 2 afterwards.
NoRun(off, nth) == [sid |-> None, ticks |-> 0, attempts |-> 0, delivered |-> 0,
                    fresh |-> FALSE, rearm |-> FALSE, res |-> "none", off |-> off,
                    nth |-> nth]
NoVideo == [finds |-> 0, attempts |-> 0, delivered |-> 0, res |-> "none"]

\* A tick reports the channel live with sid; res is what the handler did about it
\* ("skipped": no notification call), fresh whether sid was absent from live_streams.
LiveReport(o, sid, fresh, res) ==
    IF o.sid = sid
    THEN [o EXCEPT !.ticks = IF @ < MaxRun THEN @ + 1 ELSE @,
                   !.attempts = @ + (IF res = "skipped" THEN 0 ELSE 1),
                   !.res = IF res = "skipped" THEN @ ELSE res]
    ELSE [sid |-> sid, ticks |-> 1, attempts |-> IF res = "skipped" THEN 0 ELSE 1,
          delivered |-> 0, fresh |-> fresh,
          rearm |-> o.off /\ sent[sid] = 0,
          res |-> res, off |-> o.off, nth |-> IF o.nth = 0 THEN 1 ELSE 2]

\* The environment sets, or leaves empty, each of the two Twitch credentials.
TwitchCredentials == [id : BOOLEAN, secret : BOOLEAN]

\* Mutant: one of the two credentials is enough.
CredentialsEither(client_id, client_secret) == client_id \/ client_secret

\* if Config.TWITCH_CLIENT_ID and Config.TWITCH_CLIENT_SECRET
CredentialsSet(client_id, client_secret) == client_id /\ client_secret

(***************************************************************************)
(* bot.py: startup                                                         *)
(***************************************************************************)
\* VelvetBot.setup_hook: Database.init(), then the cogs load; Streaming.cog_load starts
\* each loop whose credentials are configured, and the loop waits in before_stream_check.
SetupHook ==
    /\ ~db_ready
    /\ db_ready' = TRUE
    /\ tw' = IF CredentialsSet(twitch_creds.id, twitch_creds.secret)
             THEN [tw EXCEPT !.pc = "waiting"] ELSE tw
    /\ yt' = IF youtube_key THEN [yt EXCEPT !.pc = "waiting"] ELSE yt
    /\ UNCHANGED <<bot_ready, TWITCH_CHANNELS, YOUTUBE_CHANNELS, twitch_creds, youtube_key,
                   live_streams, twitch_token, twitch_token_expires, sent, stream_alerts,
                   obs, ytobs>>
    /\ UNCHANGED <<lifeVars, modVars, xpVars>>

\* The gateway reports ready: wait_until_ready() returns from now on.
OnReady ==
    /\ db_ready
    /\ ~bot_ready
    /\ bot_ready' = TRUE
    /\ UNCHANGED <<db_ready, TWITCH_CHANNELS, YOUTUBE_CHANNELS, twitch_creds, youtube_key,
                   live_streams, twitch_token, twitch_token_expires, tw, yt, sent,
                   stream_alerts, obs, ytobs>>
    /\ UNCHANGED <<lifeVars, modVars, xpVars>>

(***************************************************************************)
(* check_twitch_streams                                                    *)
(***************************************************************************)
\* before_stream_check: await self.bot.wait_until_ready()
TwBeforeLoop ==
    /\ tw.pc = "waiting"
    /\ bot_ready
    /\ tw' = [tw EXCEPT !.pc = "idle"]
    /\ UNCHANGED <<db_ready, bot_ready, TWITCH_CHANNELS, YOUTUBE_CHANNELS, twitch_creds,
                   youtube_key, live_streams, twitch_token, twitch_token_expires, yt, sent,
                   stream_alerts, obs, ytobs>>
    /\ UNCHANGED <<lifeVars, modVars, xpVars>>

\* The timer fires, or the loop runs the body again after an exception it handles: the
\* body runs to its first suspension (the token request, or the first channel's request
\* when the token is cached).
TwTick(now) ==
    /\ tw.pc = "idle"
    /\ Events < MaxTicks
    /\ tw' = IF TWITCH_CHANNELS = << >>
             THEN [tw EXCEPT !.ticks = @ + 1, !.last = 0]
             ELSE IF TokenCached(now)
                  THEN [tw EXCEPT !.ticks = @ + 1, !.last = 0, !.pc = "get", !.idx = 1]
                  ELSE [tw EXCEPT !.ticks = @ + 1, !.last = 0, !.pc = "token"]
    /\ UNCHANGED <<db_ready, bot_ready, TWITCH_CHANNELS, YOUTUBE_CHANNELS, twitch_creds,
                   youtube_key, live_streams, twitch_token, twitch_token_expires, yt, sent,
                   stream_alerts, obs, ytobs>>
    /\ UNCHANGED <<lifeVars, modVars, xpVars>>

\* The token endpoint answers: 200 stores the token (and nothing else), anything else
\* makes get_twitch_token return None and the tick body return.
TwToken(status) ==
    /\ tw.pc = "token"
    /\ IF status = 200
       THEN /\ twitch_token' = "tok"
            /\ tw' = [tw EXCEPT !.pc = "get", !.idx = 1, !.last = status]
            /\ obs' = obs
       ELSE /\ twitch_token' = twitch_token
            /\ tw' = [tw EXCEPT !.pc = "idle", !.last = status]
            /\ obs' = [c \in TwitchNames |-> NoRun(obs[c].off, obs[c].nth)]
    /\ UNCHANGED <<db_ready, bot_ready, TWITCH_CHANNELS, YOUTUBE_CHANNELS, twitch_creds,
                   youtube_key, live_streams, twitch_token_expires, yt, sent,
                   stream_alerts, ytobs>>
    /\ UNCHANGED <<lifeVars, modVars, xpVars>>

\* The streams endpoint answers for the channel at idx; found: bot.get_channel(...) finds
\* the destination channel (read by send_stream_notification before its first await).
TwGet(resp, found) ==
    /\ tw.pc = "get"
    /\ resp.id \in StreamIdsOf(TWITCH_CHANNELS[tw.idx]) \cup {None}
    /\ LET channel == TWITCH_CHANNELS[tw.idx]
           tracked == IsTracked(live_streams, resp.id)
           fresh == resp.id \notin DOMAIN live_streams
           t == [tw EXCEPT !.last = resp.status]
       IN  IF resp.status # 200
           THEN /\ obs' = [obs EXCEPT ![channel] = NoRun(@.off, @.nth)]
                /\ tw' = Advance(t, TWITCH_CHANNELS)
                /\ UNCHANGED live_streams
           ELSE IF resp.id = None
           THEN /\ live_streams' = Untrack(live_streams, channel)
                /\ obs' = [obs EXCEPT ![channel] = NoRun(TRUE, @.nth)]
                /\ tw' = Advance(t, TWITCH_CHANNELS)
           ELSE IF tracked
           THEN /\ obs' = [obs EXCEPT ![channel] = LiveReport(@, resp.id, fresh, "skipped")]
                /\ tw' = Advance(t, TWITCH_CHANNELS)
                /\ UNCHANGED live_streams
           ELSE /\ live_streams' = Track(live_streams, resp.id, UserLogin(channel))
                /\ IF found
                   THEN /\ tw' = [t EXCEPT !.pc = "send",
                                            !.pend = [key |-> resp.id, channel |-> channel]]
                        /\ obs' = [obs EXCEPT ![channel] =
                                       LiveReport(@, resp.id, fresh, "sending")]
                   ELSE /\ tw' = Advance(t, TWITCH_CHANNELS)
                        /\ obs' = [obs EXCEPT ![channel] =
                                       LiveReport(@, resp.id, fresh, "missing")]
    /\ UNCHANGED <<db_ready, bot_ready, TWITCH_CHANNELS, YOUTUBE_CHANNELS, twitch_creds,
                   youtube_key, twitch_token, twitch_token_expires, yt, sent,
                   stream_alerts, ytobs>>
    /\ UNCHANGED <<lifeVars, modVars, xpVars>>

\* notification_channel.send(...) completes: delivered, or it raises and the exception
\* leaves the tick body.
TwSend(out) ==
    /\ tw.pc = "send"
    /\ IF out = "delivered"
       THEN /\ sent' = [sent EXCEPT ![tw.pend.key] = @ + 1]
            /\ obs' = [obs EXCEPT ![tw.pend.channel].delivered = @ + 1,
                                  ![tw.pend.channel].res = "delivered"]
            /\ tw' = [tw EXCEPT !.pc = "log"]
       ELSE /\ sent' = sent
            /\ obs' = [obs EXCEPT ![tw.pend.channel].res = "failed"]
            /\ tw' = Raised(tw, out)
    /\ UNCHANGED <<db_ready, bot_ready, TWITCH_CHANNELS, YOUTUBE_CHANNELS, twitch_creds,
                   youtube_key, live_streams, twitch_token, twitch_token_expires, yt,
                   stream_alerts, ytobs>>
    /\ UNCHANGED <<lifeVars, modVars, xpVars>>

\* self.bot.db.log_stream(channel, platform, title) commits one StreamAlert row.
TwLog ==
    /\ tw.pc = "log"
    /\ stream_alerts' = stream_alerts + 1
    /\ tw' = Advance(tw, TWITCH_CHANNELS)
    /\ UNCHANGED <<db_ready, bot_ready, TWITCH_CHANNELS, YOUTUBE_CHANNELS, twitch_creds,
                   youtube_key, live_streams, twitch_token, twitch_token_expires, yt, sent,
                   obs, ytobs>>
    /\ UNCHANGED <<lifeVars, modVars, xpVars>>

(***************************************************************************)
(* check_youtube_streams                                                   *)
(***************************************************************************)
YtBeforeLoop ==
    /\ yt.pc = "waiting"
    /\ bot_ready
    /\ yt' = [yt EXCEPT !.pc = "idle"]
    /\ UNCHANGED <<db_ready, bot_ready, TWITCH_CHANNELS, YOUTUBE_CHANNELS, twitch_creds,
                   youtube_key, live_streams, twitch_token, twitch_token_expires, tw, sent,
                   stream_alerts, obs, ytobs>>
    /\ UNCHANGED <<lifeVars, modVars, xpVars>>

YtTick ==
    /\ yt.pc = "idle"
    /\ Events < MaxTicks
    /\ yt' = IF YOUTUBE_CHANNELS = << >> \/ ~youtube_key
             THEN [yt EXCEPT !.ticks = @ + 1, !.last = 0]
             ELSE [yt EXCEPT !.ticks = @ + 1, !.last = 0, !.pc = "get", !.idx = 1]
    /\ UNCHANGED <<db_ready, bot_ready, TWITCH_CHANNELS, YOUTUBE_CHANNELS, twitch_creds,
                   youtube_key, live_streams, twitch_token, twitch_token_expires, tw, sent,
                   stream_alerts, obs, ytobs>>
    /\ UNCHANGED <<lifeVars, modVars, xpVars>>

\* The search endpoint answers for the channel at idx.
YtGet(resp, found) ==
    /\ yt.pc = "get"
    /\ LET key == YtKey(resp.id)
           y == [yt EXCEPT !.last = resp.status]
       IN  IF resp.status # 200 \/ resp.id = None
           THEN /\ yt' = Advance(y, YOUTUBE_CHANNELS)
                /\ UNCHANGED <<live_streams, ytobs>>
           ELSE IF IsTracked(live_streams, key)
           THEN /\ yt' = Advance(y, YOUTUBE_CHANNELS)
                /\ ytobs' = [ytobs EXCEPT ![resp.id].finds = @ + 1]
                /\ UNCHANGED live_streams
           ELSE /\ live_streams' = Track(live_streams, key, None)
                /\ IF found
                   THEN /\ yt' = [y EXCEPT !.pc = "send",
                                            !.pend = [key |-> key, channel |-> resp.id]]
                        /\ ytobs' = [ytobs EXCEPT ![resp.id].finds = @ + 1,
                                                  ![resp.id].attempts = @ + 1,
                                                  ![resp.id].res = "sending"]
                   ELSE /\ yt' = Advance(y, YOUTUBE_CHANNELS)
                        /\ ytobs' = [ytobs EXCEPT ![resp.id].finds = @ + 1,
                                                  ![resp.id].attempts = @ + 1,
                                                  ![resp.id].res = "missing"]
    /\ UNCHANGED <<db_ready, bot_ready, TWITCH_CHANNELS, YOUTUBE_CHANNELS, twitch_creds,
                   youtube_key, twitch_token, twitch_token_expires, tw, sent,
                   stream_alerts, obs>>
    /\ UNCHANGED <<lifeVars, modVars, xpVars>>

YtSend(out) ==
    /\ yt.pc = "send"
    /\ IF out = "delivered"
       THEN /\ sent' = [sent EXCEPT ![yt.pend.key] = @ + 1]
            /\ ytobs' = [ytobs EXCEPT ![yt.pend.channel].delivered = @ + 1,
                                      ![yt.pend.channel].res = "delivered"]
            /\ yt' = [yt EXCEPT !.pc = "log"]
       ELSE /\ sent' = sent
            /\ ytobs' = [ytobs EXCEPT ![yt.pend.channel].res = "failed"]
            /\ yt' = Raised(yt, out)
    /\ UNCHANGED <<db_ready, bot_ready, TWITCH_CHANNELS, YOUTUBE_CHANNELS, twitch_creds,
                   youtube_key, live_streams, twitch_token, twitch_token_expires, tw,
                   stream_alerts, obs>>
    /\ UNCHANGED <<lifeVars, modVars, xpVars>>

YtLog ==
    /\ yt.pc = "log"
    /\ stream_alerts' = stream_alerts + 1
    /\ yt' = Advance(yt, YOUTUBE_CHANNELS)
    /\ UNCHANGED <<db_ready, bot_ready, TWITCH_CHANNELS, YOUTUBE_CHANNELS, twitch_creds,
                   youtube_key, live_streams, twitch_token, twitch_token_expires, tw, sent,
                   obs, ytobs>>
    /\ UNCHANGED <<lifeVars, modVars, xpVars>>

(***************************************************************************)
(* announce_stream: the manual announcement                                *)
(***************************************************************************)
\* The command is invoked: send_stream_notification runs to its first await, or returns
\* at once when the destination channel is missing.
Announce(found) ==
    /\ bot_ready
    /\ announce.pc = "idle"
    /\ Events < MaxTicks
    /\ announce' = [announce EXCEPT !.calls = @ + 1,
                                    !.pc = IF found THEN "send" ELSE "reply"]
    /\ UNCHANGED <<db_ready, bot_ready, TWITCH_CHANNELS, YOUTUBE_CHANNELS, twitch_creds,
                   youtube_key, live_streams, twitch_token, twitch_token_expires, tw, yt,
                   sent, stream_alerts, obs, ytobs, reloads>>
    /\ UNCHANGED <<modVars, xpVars>>

\* notification_channel.send(...) completes, or raises into on_command_error.
AnnounceSend(ok) ==
    /\ announce.pc = "send"
    /\ announce' = IF ok THEN [announce EXCEPT !.delivered = @ + 1, !.pc = "log"]
                   ELSE [announce EXCEPT !.pc = "idle"]
    /\ UNCHANGED <<db_ready, bot_ready, TWITCH_CHANNELS, YOUTUBE_CHANNELS, twitch_creds,
                   youtube_key, live_streams, twitch_token, twitch_token_expires, tw, yt,
                   sent, stream_alerts, obs, ytobs, reloads>>
    /\ UNCHANGED <<modVars, xpVars>>

\* self.bot.db.log_stream(...) commits one StreamAlert row.
AnnounceLog ==
    /\ announce.pc = "log"
    /\ stream_alerts' = stream_alerts + 1
    /\ announce' = [announce EXCEPT !.pc = "reply"]
    /\ UNCHANGED <<db_ready, bot_ready, TWITCH_CHANNELS, YOUTUBE_CHANNELS, twitch_creds,
                   youtube_key, live_streams, twitch_token, twitch_token_expires, tw, yt,
                   sent, obs, ytobs, reloads>>
    /\ UNCHANGED <<modVars, xpVars>>

\* ctx.send("Stream announcement sent for ..."), and the handler returns.
AnnounceReply ==
    /\ announce.pc = "reply"
    /\ announce' = [announce EXCEPT !.pc = "idle"]
    /\ UNCHANGED <<db_ready, bot_ready, TWITCH_CHANNELS, YOUTUBE_CHANNELS, twitch_creds,
                   youtube_key, live_streams, twitch_token, twitch_token_expires, tw, yt,
                   sent, stream_alerts, obs, ytobs, reloads>>
    /\ UNCHANGED <<modVars, xpVars>>

(***************************************************************************)
(* bot.py reload_cog / reload_all / fresh_sync: the streaming extension is *)
(* reloaded                                                                *)
(***************************************************************************)
\* Mutant: the new instance keeps the tracked sessions.
RestartedKeeps(ls) == ls

\* Streaming.__init__: self.live_streams = {}
Restarted(ls) == << >>

\* A loop of the new instance: started by cog_load when its credentials are configured.
Started(p, configured) ==
    [LoopOff EXCEPT !.pc = IF configured THEN "waiting" ELSE "off", !.ticks = p.ticks]

\* Streaming.cog_unload cancels both loop tasks wherever they are suspended, then setup
\* adds a new Streaming instance and cog_load starts its loops.  A task cancelled while it
\* awaits notification_channel.send may have had its message delivered (twout, ytout).
Reload(twout, ytout) ==
    /\ bot_ready
    /\ Events < MaxTicks
    /\ twout => tw.pc = "send"
    /\ ytout => yt.pc = "send"
    /\ reloads' = reloads + 1
    /\ sent' = [k \in Keys |-> sent[k] + (IF twout /\ k = tw.pend.key THEN 1 ELSE 0)
                                       + (IF ytout /\ k = yt.pend.key THEN 1 ELSE 0)]
    /\ live_streams' = Restarted(live_streams)
    /\ twitch_token' = None
    /\ twitch_token_expires' = None
    /\ tw' = Started(tw, CredentialsSet(twitch_creds.id, twitch_creds.secret))
    /\ yt' = Started(yt, youtube_key)
    /\ obs' = [c \in TwitchNames |-> NoRun(FALSE, 0)]
    /\ ytobs' = [v \in VideoIds |-> NoVideo]
    /\ UNCHANGED <<db_ready, bot_ready, TWITCH_CHANNELS, YOUTUBE_CHANNELS, twitch_creds,
                   youtube_key, stream_alerts, announce>>
    /\ UNCHANGED <<modVars, xpVars>>

(***************************************************************************)
(* Moderation cog                                                          *)
(***************************************************************************)
Members == {"u1", "u2"}
Guilds == {"g1", "g2"}
Ranks == 0 .. MaxRank

\* Characters of a duration argument, and the arguments: strings of up to MaxLen chars.
Digits == {"0", "1", "2", "4", "8"}
Units == {"s", "m", "h", "d"}
Alphabet == Digits \cup Units \cup {"D", "x"}
Tokens == UNION {[1 .. n -> Alphabet] : n \in 0 .. MaxLen}
SampleTokens == {<<"1", "h">>, <<"4", "0", "d">>, <<"x">>}
PurgeAmounts == {-5, -1, 0, 1, 10, 100, 101, 250}
DmOutcomes == {"ok", "forbidden", "error"}

\* str.lower() on the characters in use
LowerChar(ch) == IF ch = "D" THEN "d" ELSE ch
Lower(t) == [i \in 1 .. Len(t) |-> LowerChar(t[i])]

DigitValue(ch) ==
    CASE ch = "0" -> 0 [] ch = "1" -> 1 [] ch = "2" -> 2 [] ch = "4" -> 4 [] ch = "8" -> 8

\* int(match.group(1))
RECURSIVE IntOf(_)
IntOf(ds) ==
    IF ds = << >> THEN 0
    ELSE 10 * IntOf(SubSeq(ds, 1, Len(ds) - 1)) + DigitValue(ds[Len(ds)])

\* time_units = {'s': 1, 'm': 60, 'h': 3600, 'd': 86400}
time_units(unit) ==
    CASE unit = "s" -> 1 [] unit = "m" -> 60 [] unit = "h" -> 3600 [] unit = "d" -> 86400

\* The number of leading characters \d+ consumes.
LeadingDigits(t) ==
    CHOOSE k \in 0 .. Len(t) :
        /\ \A i \in 1 .. k : t[i] \in Digits
        /\ k < Len(t) => t[k + 1] \notin Digits

NoMatch == [ok |-> FALSE, amount |-> 0, unit |-> "s"]

\* re.match(r'(\d+)([smhd])', duration.lower()): anchored at the start only.
ParseDuration(duration) ==
    LET t == Lower(duration)
        k == LeadingDigits(t)
    IN  IF k >= 1 /\ k < Len(t) /\ t[k + 1] \in Units
        THEN [ok |-> TRUE, amount |-> IntOf(SubSeq(t, 1, k)), unit |-> t[k + 1]]
        ELSE NoMatch

\* seconds = amount * time_units[unit]
Seconds(m) == m.amount * time_units(m.unit)

\* 28 * 86400
MaxTimeout == 28 * 86400

\* Mutants: no upper limit; a limit that excludes exactly 28 days.
OverMaxOff(seconds) == FALSE
OverMaxInclusive(seconds) == seconds >= MaxTimeout

\* if seconds > 28 * 86400: refuse
OverMax(seconds) == seconds > MaxTimeout

\* Mutant: an equal role passes.
RankGateStrict(member_top, author_top) == member_top > author_top

\* member.top_role >= ctx.author.top_role
RankGate(member_top, author_top) == member_top >= author_top

\* if amount > 100: amount = 100; limit = amount + 1
PurgeLimit(amount) == (IF amount > 100 THEN 100 ELSE amount) + 1

\* channel.purge(limit=...) returns the messages it deleted: at most limit of the history.
Purged(limit, history) ==
    IF limit <= 0 THEN 0 ELSE IF limit < history THEN limit ELSE history

Call(op, arg) == [op |-> op, arg |-> arg]

\* _log_action: the log channel's message when the channel exists, then log_mod_action.
LogAction(haslog) ==
    (IF haslog THEN <<Call("log_channel.send", 0)>> ELSE << >>)
        \o <<Call("db.log_mod_action", 0)>>

\* try: await member.send(...) except discord.Forbidden: pass
DirectMessage(dm) == <<Call("member.send", IF dm = "ok" THEN 1 ELSE 0)>>

NoCommand == [cmd |-> "none", member |-> "u1", guild |-> "g1", author_top |-> 0,
              member_top |-> 0, duration |-> << >>, amount |-> 0, calls |-> << >>]

Command(cmd, member, guild, author_top, member_top, calls) ==
    [NoCommand EXCEPT !.cmd = cmd, !.member = member, !.guild = guild,
                      !.author_top = author_top, !.member_top = member_top,
                      !.calls = calls]

\* Database.add_warning: one WarnLog row for (user_id, guild_id) is committed.
add_warning(rows, user_id, guild_id) ==
    [rows EXCEPT ![<<user_id, guild_id>>] = @ + 1]

\* Mutant: the rows of the user are deleted in every guild.
clear_warnings_user(rows, user_id, guild_id) ==
    [p \in DOMAIN rows |-> IF p[1] = user_id THEN 0 ELSE rows[p]]

\* Database.clear_warnings: every row selected by (user_id, guild_id) is deleted.
clear_warnings(rows, user_id, guild_id) ==
    [p \in DOMAIN rows |-> IF p = <<user_id, guild_id>> THEN 0 ELSE rows[p]]

\* Moderation.warn
Warn(member, guild, author_top, member_top, dm, haslog) ==
    /\ mod.cmd = "none"
    /\ warn_logs[<<member, guild>>] < MaxWarns
    /\ IF RankGate(member_top, author_top)
       THEN /\ mod' = Command("warn", member, guild, author_top, member_top,
                              <<Call("ctx.send.refused", 0)>>)
            /\ UNCHANGED warn_logs
       ELSE /\ warn_logs' = add_warning(warn_logs, member, guild)
            /\ mod' = Command("warn", member, guild, author_top, member_top,
                        <<Call("db.add_warning", 0), Call("ctx.send", 0)>>
                        \o DirectMessage(dm)
                        \o (IF dm = "error" THEN <<Call("raise", 0)>>
                            ELSE LogAction(haslog)))
    /\ UNCHANGED <<streamVars, xpVars>>

\* Moderation.kick
Kick(member, guild, author_top, member_top, dm, haslog) ==
    /\ mod.cmd = "none"
    /\ mod' = Command("kick", member, guild, author_top, member_top,
                IF RankGate(member_top, author_top)
                THEN <<Call("ctx.send.refused", 0)>>
                ELSE DirectMessage(dm)
                     \o (IF dm = "error" THEN <<Call("raise", 0)>>
                         ELSE <<Call("member.kick", 0), Call("ctx.send", 0)>>
                              \o LogAction(haslog)))
    /\ UNCHANGED <<warn_logs, streamVars, xpVars>>

\* Moderation.ban
Ban(member, guild, author_top, member_top, dm, haslog) ==
    /\ mod.cmd = "none"
    /\ mod' = Command("ban", member, guild, author_top, member_top,
                IF RankGate(member_top, author_top)
                THEN <<Call("ctx.send.refused", 0)>>
                ELSE DirectMessage(dm)
                     \o (IF dm = "error" THEN <<Call("raise", 0)>>
                         ELSE <<Call("member.ban", 0), Call("ctx.send", 0)>>
                              \o LogAction(haslog)))
    /\ UNCHANGED <<warn_logs, streamVars, xpVars>>

\* Moderation.mute
Mute(member, guild, author_top, member_top, duration, haslog) ==
    /\ mod.cmd = "none"
    /\ LET m == ParseDuration(duration)
           calls ==
               IF RankGate(member_top, author_top)
               THEN <<Call("ctx.send.refused", 0)>>
               ELSE IF ~m.ok
               THEN <<Call("ctx.send.invalid", 0)>>
               ELSE IF OverMax(Seconds(m))
               THEN <<Call("ctx.send.maximum", 0)>>
               ELSE <<Call("member.timeout", Seconds(m)), Call("ctx.send", 0)>>
                    \o LogAction(haslog)
       IN  mod' = [Command("mute", member, guild, author_top, member_top, calls)
                       EXCEPT !.duration = duration]
    /\ UNCHANGED <<warn_logs, streamVars, xpVars>>

\* Moderation.purge; history: the number of messages the channel holds, the invoking
\* message among them.
Purge(amount, history) ==
    /\ mod.cmd = "none"
    /\ LET limit == PurgeLimit(amount)
           deleted == Purged(limit, history)
       IN  mod' = [NoCommand EXCEPT
                       !.cmd = "purge", !.amount = amount,
                       !.calls = <<Call("channel.purge", limit),
                                   Call("ctx.send", deleted - 1)>>]
    /\ UNCHANGED <<warn_logs, streamVars, xpVars>>

\* Moderation.clearwarnings -> Database.clear_warnings
ClearWarnings(member, guild) ==
    /\ mod.cmd = "none"
    /\ warn_logs' = clear_warnings(warn_logs, member, guild)
    /\ mod' = [NoCommand EXCEPT !.cmd = "clearwarnings", !.member = member,
                                !.guild = guild,
                                !.calls = <<Call("db.clear_warnings",
                                                 warn_logs[<<member, guild>>]),
                                            Call("ctx.send", 0)>>]
    /\ UNCHANGED <<streamVars, xpVars>>

\* The handler has returned: its context (ctx, the calls it made) is gone.
ModReturn ==
    /\ mod.cmd # "none"
    /\ mod' = NoCommand
    /\ UNCHANGED <<warn_logs, streamVars, xpVars>>


(***************************************************************************)
(* Database: get_or_create_user, add_xp                                    *)
(***************************************************************************)
UserIds == {1, 2}
GuildIds == {10, 20}
XpAmounts == {-50, 0, 15, 99, 100, 101, 250}
CommandNames == {"hello", "rules", "nope"}
MentionCounts == {0, 5, 6}
\* The custom_commands table of the database file the bot opens (no command writes it).
StoredCommands == {[guild_id |-> 10, name |-> "hello", uses |-> 0],
                   [guild_id |-> 20, name |-> "rules", uses |-> 3]}

\* User(user_id=..., guild_id=...) after commit and refresh: the column defaults.
NewUser(user_id, guild_id) ==
    [user_id |-> user_id, guild_id |-> guild_id, xp |-> 0, level |-> 1, messages |-> 0]

\* select(User).where(User.user_id == user_id, User.guild_id == guild_id)
SelectUser(rows, user_id, guild_id) ==
    {r \in rows : r.user_id = user_id /\ r.guild_id = guild_id}

\* user_id = Column(BigInteger, unique=True): the INSERT fails on a second row of a user.
UniqueViolation(rows, user_id) == \E r \in rows : r.user_id = user_id

\* get_or_create_user: the row (detached once the session closes), the table after the
\* call, and whether the call raised.
get_or_create_user(rows, user_id, guild_id) ==
    LET found == SelectUser(rows, user_id, guild_id)
    IN  IF found # {}
        THEN [raised |-> FALSE, user |-> CHOOSE r \in found : TRUE, rows |-> rows]
        ELSE IF UniqueViolation(rows, user_id)
        THEN [raised |-> TRUE, user |-> NewUser(user_id, guild_id), rows |-> rows]
        ELSE [raised |-> FALSE, user |-> NewUser(user_id, guild_id),
              rows |-> rows \cup {NewUser(user_id, guild_id)}]

\* Mutant: the level without its base of 1.
NewLevelNoBase(points) == points \div 100

\* new_level = (user.xp // 100) + 1
NewLevel(points) == (points \div 100) + 1

\* leveled_up = new_level > old_level
LeveledUp(new_level, old_level) == new_level > old_level

NoReturn == [xp |-> 0, level |-> 0, leveled_up |-> FALSE]
NoCall == [op |-> "none", user_id |-> 0, guild_id |-> 0, name |-> "", amount |-> 0,
           raised |-> FALSE, existed |-> FALSE, old_xp |-> 0, old_level |-> 0,
           ret |-> NoReturn]
NoGuild == 0
NoMessage == [author |-> 0, guild |-> NoGuild, bot |-> FALSE, mentions |-> 0, calls |-> << >>]

\* Database.get_or_create_user called on its own.
GetOrCreateUser(user_id, guild_id) ==
    /\ xp.op = "none"
    /\ LET g == get_or_create_user(users, user_id, guild_id)
       IN  /\ users' = g.rows
           /\ xp' = [NoCall EXCEPT !.op = "get_or_create_user", !.user_id = user_id,
                                   !.guild_id = guild_id, !.raised = g.raised,
                                   !.existed = SelectUser(users, user_id, guild_id) # {},
                                   !.old_xp = g.user.xp, !.old_level = g.user.level,
                                   !.ret = [xp |-> g.user.xp, level |-> g.user.level,
                                            leveled_up |-> FALSE]]
    /\ UNCHANGED <<custom_commands, msg, streamVars, modVars>>

\* Database.add_xp: the user object comes from get_or_create_user's own session, which
\* is closed, so it belongs to no session: add_xp updates the object in memory and the
\* commit of add_xp's session writes nothing.
AddXp(user_id, guild_id, amount) ==
    /\ xp.op = "none"
    /\ LET g == get_or_create_user(users, user_id, guild_id)
           new_xp == g.user.xp + amount
           new_level == NewLevel(new_xp)
       IN  /\ users' = g.rows
           /\ xp' = [NoCall EXCEPT
                        !.op = "add_xp", !.user_id = user_id, !.guild_id = guild_id,
                        !.amount = amount, !.raised = g.raised,
                        !.existed = SelectUser(users, user_id, guild_id) # {},
                        !.old_xp = g.user.xp, !.old_level = g.user.level,
                        !.ret = IF g.raised THEN NoReturn
                                ELSE [xp |-> new_xp, level |-> new_level,
                                      leveled_up |-> LeveledUp(new_level, g.user.level)]]
    /\ UNCHANGED <<custom_commands, msg, streamVars, modVars>>

\* The call has returned (or raised) to its caller.
XpReturn ==
    /\ xp.op # "none"
    /\ xp' = NoCall
    /\ UNCHANGED <<users, custom_commands, msg, streamVars, modVars>>

\* Database.get_custom_command: select(CustomCommand).where(guild_id, name), one or None.
get_custom_command(rows, guild_id, name) ==
    {r \in rows : r.guild_id = guild_id /\ r.name = name}

\* Database.get_custom_command called: it reads, and its session closes without a write.
GetCustomCommand(guild_id, name) ==
    /\ xp.op = "none"
    /\ LET found == get_custom_command(custom_commands, guild_id, name)
       IN  xp' = [NoCall EXCEPT !.op = "get_custom_command", !.guild_id = guild_id,
                                !.name = name, !.existed = found # {},
                                !.ret = IF found = {} THEN NoReturn
                                        ELSE [NoReturn EXCEPT
                                                 !.xp = (CHOOSE r \in found : TRUE).uses]]
    /\ UNCHANGED <<users, custom_commands, msg, streamVars, modVars>>

\* The on_message listeners of the cogs: Moderation.on_message is the only one (the
\* Engagement cog has none); guild NoGuild is a direct message (message.guild is None).
OnMessage(author, guild, is_bot, mentions) ==
    /\ msg' = [author |-> author, guild |-> guild, bot |-> is_bot, mentions |-> mentions,
               calls |-> IF is_bot \/ guild = NoGuild THEN << >>
                         ELSE IF mentions > 5
                         THEN <<Call("message.delete", 0), Call("channel.send", 0)>>
                         ELSE << >>]
    /\ UNCHANGED <<users, xp, custom_commands, streamVars, modVars>>

(***************************************************************************)
(* Initial states and the streaming specification                          *)
(***************************************************************************)
StreamStart ==
    /\ db_ready = FALSE
    /\ bot_ready = FALSE
    /\ live_streams = << >>
    /\ twitch_token = None
    /\ twitch_token_expires = None
    /\ tw = LoopOff
    /\ yt = LoopOff
    /\ sent = [k \in Keys |-> 0]
    /\ stream_alerts = 0
    /\ announce = [pc |-> "idle", calls |-> 0, delivered |-> 0]
    /\ reloads = 0
    /\ obs = [c \in TwitchNames |-> NoRun(FALSE, 0)]
    /\ ytobs = [v \in VideoIds |-> NoVideo]

ModStart ==
    /\ warn_logs = [p \in Members \X Guilds |-> 0]
    /\ mod = NoCommand

XpStart ==
    /\ users = {}
    /\ xp = NoCall
    /\ custom_commands = StoredCommands
    /\ msg = NoMessage

StreamInit ==
    /\ TWITCH_CHANNELS \in TwitchConfigs
    /\ YOUTUBE_CHANNELS \in YoutubeConfigs
    /\ twitch_creds \in TwitchCredentials
    /\ youtube_key \in BOOLEAN
    /\ StreamStart
    /\ ModStart
    /\ XpStart

StreamNext ==
    \/ SetupHook
    \/ OnReady
    \/ TwBeforeLoop
    \/ \E now \in {0} : TwTick(now)
    \/ \E status \in {200, 500} : TwToken(status)
    \/ \E resp \in TwitchResponses, found \in BOOLEAN : TwGet(resp, found)
    \/ \E out \in SendOutcomes : TwSend(out)
    \/ TwLog
    \/ YtBeforeLoop
    \/ YtTick
    \/ \E resp \in YoutubeResponses, found \in BOOLEAN : YtGet(resp, found)
    \/ \E out \in SendOutcomes : YtSend(out)
    \/ YtLog

StreamSpec == StreamInit /\ [][StreamNext]_vars

\* The pollers together with the announce command and reloads of the extension.
LifeNext ==
    \/ StreamNext
    \/ \E found \in BOOLEAN : Announce(found)
    \/ \E ok \in BOOLEAN : AnnounceSend(ok)
    \/ AnnounceLog
    \/ AnnounceReply
    \/ \E twout \in BOOLEAN, ytout \in BOOLEAN : Reload(twout, ytout)

\* One channel configured on each platform.
LifeInit ==
    /\ TWITCH_CHANNELS \in {<<"velvet">>, <<"Sage">>}
    /\ YOUTUBE_CHANNELS = <<"UCabc">>
    /\ twitch_creds \in TwitchCredentials
    /\ youtube_key \in BOOLEAN
    /\ StreamStart
    /\ ModStart
    /\ XpStart

LifeSpec == LifeInit /\ [][LifeNext]_vars

(***************************************************************************)
(* The moderation specifications: the bot runs, the pollers are left out.  *)
(***************************************************************************)
BotInit ==
    /\ TWITCH_CHANNELS = << >>
    /\ YOUTUBE_CHANNELS = << >>
    /\ twitch_creds = [id |-> FALSE, secret |-> FALSE]
    /\ youtube_key = FALSE
    /\ StreamStart
    /\ ModStart
    /\ XpStart

\* One command is handled at a time (mod.cmd = "none": no handler is running).
ModNext ==
    \/ /\ mod.cmd = "none"
       /\ \E member \in Members, guild \in Guilds, author_top \in Ranks,
             member_top \in Ranks, dm \in DmOutcomes, haslog \in BOOLEAN :
               \/ Warn(member, guild, author_top, member_top, dm, haslog)
               \/ Kick(member, guild, author_top, member_top, dm, haslog)
               \/ Ban(member, guild, author_top, member_top, dm, haslog)
    \/ /\ mod.cmd = "none"
       /\ \E member \in Members, guild \in Guilds, author_top \in Ranks,
             member_top \in Ranks, duration \in SampleTokens, haslog \in BOOLEAN :
               Mute(member, guild, author_top, member_top, duration, haslog)
    \/ /\ mod.cmd = "none"
       /\ \E amount \in PurgeAmounts, history \in 1 .. MaxHistory : Purge(amount, history)
    \/ /\ mod.cmd = "none"
       /\ \E member \in Members, guild \in Guilds : ClearWarnings(member, guild)
    \/ ModReturn

ModSpec == BotInit /\ [][ModNext]_vars

\* Moderation.mute over every duration argument.
MuteNext ==
    \/ /\ mod.cmd = "none"
       /\ \E member \in Members, guild \in Guilds, author_top \in Ranks,
             member_top \in Ranks, duration \in Tokens, haslog \in BOOLEAN :
               Mute(member, guild, author_top, member_top, duration, haslog)
    \/ ModReturn

MuteSpec == BotInit /\ [][MuteNext]_vars

(***************************************************************************)
(* The XP specification: calls of the Database methods, one at a time.     *)
(***************************************************************************)
XpNext ==
    \/ /\ xp.op = "none"
       /\ \E user_id \in UserIds, guild_id \in GuildIds :
              GetOrCreateUser(user_id, guild_id)
    \/ /\ xp.op = "none"
       /\ \E user_id \in UserIds, guild_id \in GuildIds, amount \in XpAmounts :
              AddXp(user_id, guild_id, amount)
    \/ /\ xp.op = "none"
       /\ \E guild_id \in GuildIds, name \in CommandNames :
              GetCustomCommand(guild_id, name)
    \/ \E author \in UserIds, guild \in GuildIds \cup {NoGuild}, is_bot \in BOOLEAN,
          mentions \in MentionCounts : OnMessage(author, guild, is_bot, mentions)
    \/ XpReturn

XpSpec == BotInit /\ [][XpNext]_vars

(***************************************************************************)
(* Claims about the pollers (StreamSpec)                                   *)
(***************************************************************************)
TwSettled(c) == obs[c].sid # None /\ obs[c].res # "sending"

\* C1 (as stated): once a tick has reported channel c live with session S, the run of
\* consecutive ticks reporting S has sent exactly one notification for S.
C1_ExactlyOnePerRun ==
    \A c \in TwitchNames : TwSettled(c) => obs[c].delivered = 1

\* C1 (amended): over a run of consecutive ticks reporting c live with S the notification
\* is attempted once, by the tick that found S untracked, and by no later tick of the run;
\* at most one message is delivered, exactly one when that attempt found the destination
\* channel and its send succeeded.
C1_AtMostOnePerRun ==
    \A c \in TwitchNames :
        obs[c].sid # None =>
            /\ obs[c].attempts = (IF obs[c].fresh THEN 1 ELSE 0)
            /\ obs[c].delivered <= obs[c].attempts
            /\ (obs[c].delivered = 1) = (obs[c].res = "delivered")
            /\ obs[c].sid \in DOMAIN live_streams

C1_Witness ==
    \E c \in TwitchNames :
        /\ obs[c].ticks >= 2
        /\ obs[c].fresh
        /\ obs[c].delivered = 1
        /\ tw.pc = "idle"

\* C2 (as stated): after a tick reported c not live, a tick reporting c live with an id
\* that was never announced sends a notification for it.
C2_RearmSends ==
    \A c \in TwitchNames :
        (TwSettled(c) /\ obs[c].rearm /\ obs[c].ticks = 1) => obs[c].delivered = 1

\* C2 (amended): after a tick reported c not live, a tick reporting c live with an id that
\* is not in live_streams tracks the id and calls send_stream_notification for it; the
\* message is delivered when the destination channel is found and the send succeeds.
C2_RearmAttempts ==
    \A c \in TwitchNames :
        (obs[c].sid # None /\ obs[c].off /\ obs[c].fresh) =>
            /\ obs[c].attempts = 1
            /\ obs[c].res \in {"sending", "missing", "failed", "delivered"}
            /\ obs[c].sid \in DOMAIN live_streams
            /\ (obs[c].res = "delivered") = (sent[obs[c].sid] >= 1 /\ obs[c].delivered = 1)

C2_Witness ==
    \E c \in TwitchNames :
        /\ obs[c].off
        /\ obs[c].rearm
        /\ obs[c].fresh
        /\ obs[c].res = "delivered"
        /\ \E k \in StreamIdsOf(c) \ {obs[c].sid} : sent[k] = 1

\* C3 (as stated): once a tick has found video V, "yt_" + V is tracked and one
\* notification has been sent for it, however many ticks found V.
C3_OneNotification ==
    \A v \in VideoIds :
        (ytobs[v].finds >= 1 /\ ytobs[v].res # "sending") =>
            /\ ("yt_" \o v) \in DOMAIN live_streams
            /\ sent["yt_" \o v] = 1

\* C3 (amended): once a tick has found video V, "yt_" + V is tracked, the notification
\* has been attempted exactly once (by the first tick that found V) and every later tick
\* that finds V sends nothing; one message is delivered when that attempt found the
\* destination channel and its send succeeded, none otherwise.
C3_OneAttempt ==
    \A v \in VideoIds :
        ytobs[v].finds >= 1 =>
            /\ ("yt_" \o v) \in DOMAIN live_streams
            /\ ytobs[v].attempts = 1
            /\ sent["yt_" \o v] = ytobs[v].delivered
            /\ (ytobs[v].delivered = 1) = (ytobs[v].res = "delivered")
            /\ ytobs[v].delivered <= 1

C3_Witness ==
    \E v \in VideoIds :
        /\ ytobs[v].finds >= 2
        /\ sent["yt_" \o v] = 1
        /\ yt.pc = "idle"

\* C4: within one process lifetime the announcement for a Twitch session id is sent at
\* most once, whatever the ticks in between reported.
C4_AtMostOncePerSession ==
    \A k \in StreamIds : sent[k] <= 1

\* Steps of the tick bodies in which a request failed, and what a failure must leave alone.
TwFailed == tw.pc = "get" /\ tw' # tw /\ tw'.last \notin {0, 200}
YtFailed == yt.pc = "get" /\ yt' # yt /\ yt'.last \notin {0, 200}
TokenFailed == tw.pc = "token" /\ tw' # tw /\ tw'.last # 200
NothingNotified ==
    /\ live_streams' = live_streams
    /\ sent' = sent
    /\ stream_alerts' = stream_alerts
\* The body goes on with the channel after the one at p.idx and ends after the last one.
GoesOn(p, q, channels) ==
    IF p.idx < Len(channels) THEN q.pc = "get" /\ q.idx = p.idx + 1
    ELSE q.pc = "idle" /\ q.idx = 0

C17_TokenReused ==
    tw.pc = "token" => twitch_token = None

\* The tick body handles a successful response that reports channel c not live.
NotLive(c) ==
    /\ tw.pc = "get"
    /\ tw' # tw
    /\ TWITCH_CHANNELS[tw.idx] = c
    /\ tw'.last = 200
    /\ obs'[c].sid = None

\* C18: after a successful response that reports channel C not live, the tracked set
\* holds no entry inserted for a session of C, and the entries of the other Twitch
\* channels and all "yt_" entries are as they were.
C18_NotLiveCleanup ==
    [][\A c \in TwitchNames :
          NotLive(c) =>
              /\ \A k \in StreamIdsOf(c) : k \notin DOMAIN live_streams'
              /\ DOMAIN live_streams' \subseteq DOMAIN live_streams
              /\ \A k \in DOMAIN live_streams \ StreamIdsOf(c) :
                     k \in DOMAIN live_streams' /\ live_streams'[k] = live_streams[k]]_vars

\* The entries a poller inserted: a Twitch stream object carries a "user_login", a
\* YouTube search item carries none.
TwitchEntries(ls) == [k \in {j \in DOMAIN ls : ls[j] # None} |-> ls[k]]
YoutubeEntries(ls) == [k \in {j \in DOMAIN ls : ls[j] = None} |-> ls[k]]
TwGetStep == tw.pc = "get" /\ tw' # tw
YtGetStep == yt.pc = "get" /\ yt' # yt
\* The step handles a 200 response that reports the channel live with sid / video v.
TwReports(c, sid) ==
    /\ TwGetStep
    /\ tw'.last = 200
    /\ TWITCH_CHANNELS[tw.idx] = c
    /\ obs'[c].sid = sid
YtReports(v) ==
    /\ YtGetStep
    /\ yt'.last = 200
    /\ ytobs'[v].finds = ytobs[v].finds + 1

\* C22: however the two tick bodies interleave at their suspension points, the entries
\* a poller inserted are added, removed or replaced only by a step of that poller's own
\* tick body (so the Twitch not-live cleanup never drops a "yt_" key), and a key of one
\* platform never suppresses a notification of the other: a session reported live is
\* notified unless its own poller tracked it before.
C22_PollerIsolation ==
    [][/\ ~TwGetStep => TwitchEntries(live_streams') = TwitchEntries(live_streams)
       /\ ~YtGetStep => YoutubeEntries(live_streams') = YoutubeEntries(live_streams)
       /\ \A c \in TwitchNames, sid \in StreamIds :
              (TwReports(c, sid) /\ sid \notin DOMAIN TwitchEntries(live_streams))
                  => /\ tw'.pc = "send" \/ obs'[c].res = "missing"
                     /\ obs'[c].attempts = (IF obs[c].sid = sid THEN obs[c].attempts ELSE 0) + 1
       /\ \A v \in VideoIds :
              (YtReports(v) /\ YtKey(v) \notin DOMAIN YoutubeEntries(live_streams))
                  => /\ yt'.pc = "send" \/ ytobs'[v].res = "missing"
                     /\ ytobs'[v].attempts = ytobs[v].attempts + 1]_vars

\* The YouTube body is suspended in its send, its key tracked, and the Twitch poller has
\* announced a session and then cleaned it up on a not-live answer.
C22_Witness ==
    /\ yt.pc = "send"
    /\ yt.pend.key \in DOMAIN live_streams
    /\ tw.ticks = 2
    /\ tw.last = 200
    /\ \E c \in TwitchNames :
           /\ obs[c].off
           /\ obs[c].nth = 1
           /\ \E k \in StreamIdsOf(c) : sent[k] = 1 /\ k \notin DOMAIN live_streams

Undelivered == {"missing", "failed"}

\* C25: a poller adds the session key to the tracked set before it attempts the
\* notification and leaves it there when the attempt does not deliver (the destination
\* channel is missing, or the send raises); while the channel keeps reporting the same
\* session id the key stays tracked and no later tick attempts the notification again.
C25_TrackBeforeSend ==
    /\ tw.pc = "send" => tw.pend.key \in DOMAIN live_streams
    /\ yt.pc = "send" => yt.pend.key \in DOMAIN live_streams
    /\ \A c \in TwitchNames :
           (obs[c].sid # None /\ obs[c].res \in Undelivered)
               => /\ obs[c].sid \in DOMAIN live_streams
                  /\ obs[c].attempts = 1
                  /\ obs[c].delivered = 0
    /\ \A v \in VideoIds :
           ytobs[v].res \in Undelivered
               => /\ YtKey(v) \in DOMAIN live_streams
                  /\ ytobs[v].attempts = 1
                  /\ ytobs[v].delivered = 0
                  /\ sent[YtKey(v)] = 0

\* A send raised an exception the loop handles, the body ran again and found the same
\* session; on the other platform the destination channel was missing and a later tick
\* found the same video.
C25_Witness ==
    /\ tw.pc = "idle"
    /\ \E c \in TwitchNames :
           /\ obs[c].res = "failed"
           /\ obs[c].ticks = 2
           /\ obs[c].attempts = 1
           /\ sent[obs[c].sid] = 0
    /\ yt.pc = "idle"
    /\ \E v \in VideoIds :
           /\ ytobs[v].res = "missing"
           /\ ytobs[v].finds = 2
           /\ sent[YtKey(v)] = 0

(***************************************************************************)
(* Claims about the moderation handlers (ModSpec, MuteSpec)                *)
(***************************************************************************)
Gated == {"warn", "kick", "ban", "mute"}
Effects == {"member.kick", "member.ban", "member.timeout", "db.add_warning",
            "member.send", "log_channel.send", "db.log_mod_action"}
Made(op) == \E i \in 1 .. Len(mod.calls) : mod.calls[i].op = op

\* C5: warn, kick, ban and mute refuse when the target's top role is greater than or
\* equal to the invoker's: the handler makes no platform call, writes no warning row,
\* sends no DM and makes no moderation log entry.
C5_RankGate ==
    [][(mod.cmd = "none" /\ mod'.cmd \in Gated /\ mod'.member_top >= mod'.author_top)
          => /\ warn_logs' = warn_logs
             /\ \A i \in 1 .. Len(mod'.calls) : mod'.calls[i].op \notin Effects
             /\ mod'.calls = <<Call("ctx.send.refused", 0)>>]_vars

C5_Witness ==
    /\ mod.cmd = "ban"
    /\ mod.member_top = mod.author_top
    /\ mod.calls = <<Call("ctx.send.refused", 0)>>

\* The duration arguments of the form <integer><unit>, unit in {s,m,h,d}, and their worth.
WellFormed(t) ==
    /\ Len(t) >= 2
    /\ \A i \in 1 .. Len(t) - 1 : t[i] \in Digits
    /\ t[Len(t)] \in Units
UnitFactor == [s |-> 1, m |-> 60, h |-> 3600, d |-> 86400]
Worth(t) == IntOf(SubSeq(t, 1, Len(t) - 1)) * UnitFactor[t[Len(t)]]
MutePassed == mod.cmd = "mute" /\ mod.member_top < mod.author_top

\* C6 (as stated): a duration that parses to more than 28 days is clamped: mute applies
\* a timeout of exactly 2,419,200 seconds.
C6_Clamped ==
    (MutePassed /\ WellFormed(mod.duration) /\ Worth(mod.duration) > 2419200)
        => Call("member.timeout", 2419200) \in {mod.calls[i] : i \in 1 .. Len(mod.calls)}

\* C6 (amended): a duration that parses to more than 28 days is refused: mute replies
\* "Maximum timeout is 28 days." and applies no timeout.
C6_Refused ==
    (MutePassed /\ WellFormed(mod.duration) /\ Worth(mod.duration) > 2419200)
        => mod.calls = <<Call("ctx.send.maximum", 0)>>

C6_Witness ==
    /\ MutePassed
    /\ mod.duration = <<"4", "0", "d">>
    /\ ~Made("member.timeout")
    /\ Made("ctx.send.maximum")

\* C7: a duration argument that is not exactly <integer><unit> (letter case aside) is
\* rejected with the invalid-duration message and no timeout is applied.
C7_MalformedRejected ==
    (MutePassed /\ ~WellFormed(Lower(mod.duration)))
        => mod.calls = <<Call("ctx.send.invalid", 0)>>

\* C8: a well-formed duration worth at most 28 days is applied as a timeout of
\* n * (1, 60, 3600, 86400) seconds; "10m" is 600, "1d" is 86400, 28 days is accepted.
C8_TimeoutValue ==
    /\ (MutePassed /\ WellFormed(mod.duration) /\ Worth(mod.duration) <= 2419200)
          => /\ Len(mod.calls) >= 1
             /\ mod.calls[1] = Call("member.timeout", Worth(mod.duration))
    /\ (MutePassed /\ mod.duration = <<"1", "0", "m">>)
          => mod.calls[1] = Call("member.timeout", 600)
    /\ (MutePassed /\ mod.duration = <<"1", "d">>)
          => mod.calls[1] = Call("member.timeout", 86400)

C8_Witness ==
    /\ MutePassed
    /\ mod.duration = <<"2", "8", "d">>
    /\ mod.calls[1] = Call("member.timeout", 2419200)

\* C9: for every requested amount N purge asks for the invoking message plus min(N, 100)
\* messages, a limit between 1 and 101, and the count it reports is never negative.
C9_PurgeBound ==
    mod.cmd = "purge"
        => /\ mod.calls[1].op = "channel.purge"
           /\ mod.calls[1].arg = (IF mod.amount < 100 THEN mod.amount ELSE 100) + 1
           /\ mod.calls[1].arg >= 1
           /\ mod.calls[1].arg <= 101
           /\ mod.calls[2].arg >= 0

Refused == mod'.member_top >= mod'.author_top

\* C20: the number of warning records of a (user, guild) pair is the number of non-refused
\* warns issued for it since its last clearwarnings: a non-refused warn adds one record to
\* its pair, clearwarnings leaves its pair with none, and every command leaves the
\* records of every other user and every other guild as they were.
C20_WarnLog ==
    [][(mod.cmd = "none" /\ mod'.cmd # "none")
          => \A p \in Members \X Guilds :
                warn_logs'[p] =
                    IF p # <<mod'.member, mod'.guild>> THEN warn_logs[p]
                    ELSE IF mod'.cmd = "warn" /\ ~Refused THEN warn_logs[p] + 1
                    ELSE IF mod'.cmd = "clearwarnings" THEN 0
                    ELSE warn_logs[p]]_vars

C20_Witness ==
    /\ mod.cmd = "clearwarnings"
    /\ mod.calls[1] = Call("db.clear_warnings", 2)
    /\ warn_logs[<<mod.member, mod.guild>>] = 0
    /\ \E g \in Guilds \ {mod.guild} : warn_logs[<<mod.member, g>>] = 1
    /\ \E m \in Members \ {mod.member} : warn_logs[<<m, mod.guild>>] = 2

DmFailed == Call("member.send", 0) \in {mod.calls[i] : i \in 1 .. Len(mod.calls)}

\* C21: when warn, kick or ban passes the rank gate and the direct message to the target
\* is not delivered, whatever the failure, the handler still performs the platform
\* action (kick, ban) or writes the warning record (warn), sends the confirmation and
\* makes the moderation log entry, as it does when the message is delivered.
C21_BestEffortDm ==
    (mod.cmd \in {"warn", "kick", "ban"} /\ mod.member_top < mod.author_top /\ DmFailed)
        => /\ (mod.cmd = "warn" => Made("db.add_warning"))
           /\ (mod.cmd = "kick" => Made("member.kick"))
           /\ (mod.cmd = "ban" => Made("member.ban"))
           /\ Made("ctx.send")
           /\ Made("db.log_mod_action")
           /\ ~Made("raise")

(***************************************************************************)
(* Claims about the XP methods (XpSpec)                                    *)
(***************************************************************************)
XpReturned == xp.op = "add_xp" /\ ~xp.raised

C11_Durable ==
    (XpReturned /\ xp.amount > 0) =>
        \E r \in SelectUser(users, xp.user_id, xp.guild_id) :
            /\ r.xp = xp.old_xp + xp.amount
            /\ r.level = (r.xp \div 100) + 1

\* Config.XP_PER_MESSAGE
XP_PER_MESSAGE == 15
Eligible == msg.author # 0 /\ ~msg.bot /\ msg.guild # NoGuild
Awarded(u, g) == \E r \in SelectUser(users, u, g) : r.xp > 0

\* C12: an eligible message (non-bot sender, inside a guild) from a user who received no
\* award in the last 60 seconds (here: none at all) awards XP_PER_MESSAGE xp.
C12_MessageAwardsXp ==
    (Eligible /\ ~Awarded(msg.author, msg.guild)) =>
        \E i \in 1 .. Len(msg.calls) : msg.calls[i] = Call("db.add_xp", XP_PER_MESSAGE)

\* C13: one record per (user, guild) pair: never two records of one pair, and once
\* get_or_create_user or add_xp was called for a pair, exactly one record of it exists
\* (the same user in two guilds has two records).
C13_OneRecordPerPair ==
    /\ \A u \in UserIds, g \in GuildIds : Cardinality(SelectUser(users, u, g)) <= 1
    /\ xp.op \in {"get_or_create_user", "add_xp"}
          => Cardinality(SelectUser(users, xp.user_id, xp.guild_id)) = 1

\* The table after the use counter of the rows of (guild_id, name) went up by one.
Used(rows, guild_id, name) ==
    {IF r.guild_id = guild_id /\ r.name = name THEN [r EXCEPT !.uses = @ + 1] ELSE r :
        r \in rows}

\* C14: a lookup by (guild, name) that hits a stored command increments that command's
\* use counter by exactly one; a lookup that misses changes no counter.
C14_UseCounter ==
    [][(xp.op = "none" /\ xp'.op = "get_custom_command")
          => custom_commands' = Used(custom_commands, xp'.guild_id, xp'.name)]_vars

(***************************************************************************)
(* Claims about notifications and restarts (LifeSpec)                      *)
(***************************************************************************)
RECURSIVE SumSent(_)
SumSent(S) == IF S = {} THEN 0
              ELSE LET k == CHOOSE j \in S : TRUE IN sent[k] + SumSent(S \ {k})
Delivered == SumSent(Keys) + announce.delivered
InProgress == tw.pc \in {"send", "log"} \/ yt.pc \in {"send", "log"}
                  \/ announce.pc \in {"send", "log"}

\* C15: whenever no notification is in progress, the number of StreamAlert records equals
\* the number of notifications delivered to the destination channel by the pollers and
\* the announce command.
C15_OneRecordPerNotification ==
    ~InProgress => stream_alerts = Delivered

\* C19 (as stated): after a restart of the streaming component, the first successful
\* poll that finds a channel live sends a notification for that session.
C19_RestartSends ==
    reloads >= 1 =>
        /\ \A c \in TwitchNames :
               (obs[c].sid # None /\ obs[c].nth = 1 /\ obs[c].res # "sending")
                   => obs[c].delivered = 1
        /\ \A v \in VideoIds :
               (ytobs[v].finds >= 1 /\ ytobs[v].res # "sending")
                   => ytobs[v].delivered = 1

\* C19 (amended): the tracked set is empty when the streaming component starts, so the
\* first successful poll of an instance that finds a channel live finds the session
\* untracked, tracks it and attempts the notification once, also when the session was
\* announced before the restart; the message is delivered when the destination channel
\* is found and the send succeeds.
C19_RestartAttempts ==
    /\ (tw.pc \in {"off", "waiting"} /\ yt.pc \in {"off", "waiting"}) => live_streams = << >>
    /\ \A c \in TwitchNames :
           (obs[c].sid # None /\ obs[c].nth = 1) =>
               /\ obs[c].fresh
               /\ obs[c].attempts = 1
               /\ obs[c].sid \in DOMAIN live_streams
               /\ (obs[c].delivered = 1) = (obs[c].res = "delivered")
    /\ \A v \in VideoIds :
           ytobs[v].finds >= 1 =>
               /\ ytobs[v].attempts = 1
               /\ YtKey(v) \in DOMAIN live_streams
               /\ (ytobs[v].delivered = 1) = (ytobs[v].res = "delivered")

C19_Witness ==
    /\ reloads >= 1
    /\ \E c \in TwitchNames :
           /\ obs[c].sid # None
           /\ obs[c].nth = 1
           /\ obs[c].res = "delivered"
           /\ sent[obs[c].sid] = 2

BodyRan(p) == p.ticks >= 1 \/ p.pc \in {"token", "get", "send", "log", "dead"}
LoopStarted(p) == p.pc # "off"

\* C23: no tick body of either poller runs before Database.init() has completed and
\* the bot has become ready, and a poller's loop is started only when its credentials
\* are configured: the client id and the client secret for Twitch, the API key for
\* YouTube.
C23_StartupOrdering ==
    /\ BodyRan(tw) => db_ready /\ bot_ready
    /\ BodyRan(yt) => db_ready /\ bot_ready
    /\ LoopStarted(tw) => db_ready /\ twitch_creds.id /\ twitch_creds.secret
    /\ LoopStarted(yt) => db_ready /\ youtube_key

\* Only the Twitch client id is missing: after a reload the YouTube body has run and
\* the Twitch loop was never started.
C23_Witness ==
    /\ reloads >= 1
    /\ ~twitch_creds.id
    /\ twitch_creds.secret
    /\ youtube_key
    /\ tw.pc = "off"
    /\ tw.ticks = 0
    /\ yt.pc = "get"
    /\ yt.ticks >= 2

\* C24: within one lifetime of the Streaming instance a "yt_" key that is in the tracked
\* set stays in it after every step of either poller and of the announce command, and
\* the video is not notified again: its one attempt was made when the key was added,
\* also when the channel went offline and came back with the same video id.
C24_YoutubeKeysStay ==
    [][reloads' = reloads =>
          \A v \in VideoIds :
              YtKey(v) \in DOMAIN live_streams =>
                  /\ YtKey(v) \in DOMAIN live_streams'
                  /\ ytobs[v].attempts = 1
                  /\ ytobs'[v].attempts = 1
                  /\ ytobs'[v].delivered <= 1
                  /\ sent'[YtKey(v)] <= sent[YtKey(v)] + (IF yt.pc = "send" THEN 1 ELSE 0)]_vars

\* The video was found live on two of three YouTube ticks and notified once, and a
\* Twitch tick ran the not-live cleanup.
C24_Witness ==
    /\ reloads = 0
    /\ yt.ticks = 3
    /\ yt.pc = "idle"
    /\ \E v \in VideoIds :
           /\ ytobs[v].finds = 2
           /\ ytobs[v].delivered = 1
           /\ sent[YtKey(v)] = 1
           /\ YtKey(v) \in DOMAIN live_streams
    /\ \A v \in VideoIds : ytobs[v].finds \in {0, 2}
    /\ tw.ticks = 1
    /\ tw.pc = "idle"
    /\ tw.last = 200
    /\ \E c \in TwitchNames : obs[c].off

====
